---- MODULE Spec2Model ----
(***************************************************************************)
(* wineSVG: the d2d1 SVG document resource (dlls/d2d1/svg.c, the PE side)  *)
(* and the unix library behind the dispatch table (the native side, which  *)
(* loads librsvg and cairo with dlopen and renders into caller memory).    *)
(*                                                                         *)
(* Pointers are modelled by whether they are null: a function pointer is   *)
(* TRUE when dlsym returned an address.  A double is either NaN or a       *)
(* number of hundredths, so that the literal 0.01 is the value 1.          *)
(***************************************************************************)
EXTENDS Integers, Sequences, FiniteSets, TLC

VARIABLES
    librsvg_so,         \* static void *librsvg_so: TRUE when non-null
    libcairo,           \* static void *libcairo: TRUE when non-null
    p,                  \* the static function pointers p_*: symbol -> non-null
    handles,            \* RsvgHandle objects the parser returned and nobody unref'd
    call,               \* the dispatcher call that has just returned to its caller
    crashed,            \* the process died inside a call (null or stale call target)
    unixlib_handle,     \* __wine_unixlib_handle: TRUE when the unix library is there
    docs,               \* the struct d2d_svg_document objects, by slot
    held,               \* held[t][d]: references to d that thread t owns
    pc,                 \* where each thread is inside Release
    factory_refcount,   \* the reference count of the owning ID2D1Factory
    ops,                \* per document: AddRef, Release and GetFactory calls made
    torn,               \* per document: the teardowns performed on it
    lastCreate,         \* the last d2d_svg_document_create call and its result
    lastRef,            \* the AddRef or Release call that has just counted, and its result
    ld,                 \* per thread: where it is inside a command that loads a library
    dl                  \* per library: what the dynamic loader was asked to do so far

uvars == <<librsvg_so, libcairo, p, handles, crashed>>

pevars == <<unixlib_handle, docs, held, pc, factory_refcount, ops, torn, lastCreate,
           lastRef>>

lvars == <<ld, dl>>

vars == <<uvars, call, pevars, lvars>>

----------------------------------------------------------------------------
(* Bounds of the model *)

\* library images on disk lack at most this many of the symbols the code binds
MaxMissing == 1
\* RsvgHandle objects alive at once
MaxHandles == 1
\* document objects created in one run
MaxDocs == 1
\* AddRef calls made on one document
MaxAddRef == 2
\* GetFactory calls made on one document
MaxGetFactory == 1
\* threads calling into the PE side
NumThreads == 2

----------------------------------------------------------------------------
(* Values *)

NULL == 0

STATUS_SUCCESS == "STATUS_SUCCESS"
STATUS_NOT_SUPPORTED == "STATUS_NOT_SUPPORTED"
STATUS_UNSUCCESSFUL == "STATUS_UNSUCCESSFUL"
STATUS_INVALID_PARAMETER == "STATUS_INVALID_PARAMETER"

\* the symbols load_librsvg binds
RsvgSyms == {"rsvg_handle_new_from_data", "g_object_unref", "g_error_free",
             "rsvg_handle_render_document"}

\* the symbols load_cairo binds
CairoSyms == {"cairo_image_surface_create_for_data", "cairo_create",
              "cairo_destroy", "cairo_surface_destroy", "cairo_scale"}

Syms == RsvgSyms \cup CairoSyms

\* the pointers load_librsvg tests before it reports success
RsvgChecked == {"rsvg_handle_new_from_data", "g_object_unref", "g_error_free",
                "rsvg_handle_render_document"}

\* the pointers load_cairo tests before it reports success
CairoChecked == {"cairo_image_surface_create_for_data", "cairo_create"}

(* What dlopen finds on disk at the time of a call: nothing, or a shared    *)
(* object exporting some of the symbols.                                   *)
Absent == [present |-> FALSE, syms |-> {}]

Image(S) == [present |-> TRUE, syms |-> S]

ImagesOf(S, missing) ==
    {Absent} \cup {Image(X) : X \in {Y \in SUBSET S : Cardinality(S \ Y) <= missing}}

\* a library that is not installed, or is installed whole
WholeImages(S) == {Absent, Image(S)}

RsvgImages == ImagesOf(RsvgSyms, MaxMissing)

CairoImages == ImagesOf(CairoSyms, MaxMissing)

(* doubles: NaN, or v hundredths *)
NaN == [k |-> "nan", v |-> 0]

Num(v) == [k |-> "num", v |-> v]

\* x <= c hundredths; every comparison with NaN is false
DLeq(x, c) == x.k = "num" /\ x.v <= c

\* the literal 0.01, in hundredths
Threshold == 1

\* the literal 1000.0
ScaleMax == 1000

(* (double)w / s for an unsigned w: a fraction n/d with d > 0, an infinity *)
(* (w > 0 divided by zero) or NaN                                          *)
ScaleOf(w, s) ==
    IF s.k = "nan" THEN [k |-> "nan", n |-> 0, d |-> 1]
    ELSE IF s.v = 0
         THEN IF w = 0 THEN [k |-> "nan", n |-> 0, d |-> 1]
                       ELSE [k |-> "inf", n |-> 1, d |-> 1]
    ELSE IF s.v > 0 THEN [k |-> "num", n |-> 100 * w, d |-> s.v]
    ELSE [k |-> "num", n |-> 0 - (100 * w), d |-> 0 - s.v]

\* scale <= 0.0 || scale > 1000.0
ScaleRejected(x) ==
    \/ x.k = "num" /\ x.n <= 0
    \/ x.k = "inf"
    \/ x.k = "num" /\ x.n > ScaleMax * x.d

----------------------------------------------------------------------------
(* The unix side's statics, as one value the handlers transform *)

Unix == [librsvg_so |-> librsvg_so, libcairo |-> libcairo, p |-> p,
         handles |-> handles]

Bind(u, S, img) == [s \in Syms |-> IF s \in S THEN s \in img.syms ELSE u.p[s]]

\* a loader without the early return: it opens and binds on every call
load_librsvg_reopens(u, img) ==
    IF ~img.present
    THEN [ret |-> FALSE, u |-> [u EXCEPT !.librsvg_so = FALSE], log |-> <<"dlopen:librsvg">>]
    ELSE [ret |-> TRUE,
          u |-> [u EXCEPT !.p = Bind(u, RsvgSyms, img), !.librsvg_so = TRUE],
          log |-> <<"dlopen:librsvg", "dlsym:librsvg">>]

load_librsvg(u, img) ==
    IF u.librsvg_so THEN [ret |-> TRUE, u |-> u, log |-> <<>>]
    ELSE IF ~img.present
         THEN [ret |-> FALSE, u |-> u, log |-> <<"dlopen:librsvg">>]
    ELSE LET q == Bind(u, RsvgSyms, img) IN
         IF \E s \in RsvgChecked : ~q[s]
         THEN [ret |-> FALSE,
               u |-> [u EXCEPT !.p = q, !.librsvg_so = FALSE],
               log |-> <<"dlopen:librsvg", "dlsym:librsvg", "dlclose:librsvg">>]
         ELSE [ret |-> TRUE,
               u |-> [u EXCEPT !.p = q, !.librsvg_so = TRUE],
               log |-> <<"dlopen:librsvg", "dlsym:librsvg">>]

load_cairo(u, img) ==
    IF u.libcairo THEN [ret |-> TRUE, u |-> u, log |-> <<>>]
    ELSE IF ~img.present
         THEN [ret |-> FALSE, u |-> u, log |-> <<"dlopen:libcairo">>]
    ELSE LET q == Bind(u, CairoSyms, img) IN
         IF \E s \in CairoChecked : ~q[s]
         THEN [ret |-> FALSE,
               u |-> [u EXCEPT !.p = q, !.libcairo = FALSE],
               log |-> <<"dlopen:libcairo", "dlsym:libcairo", "dlclose:libcairo">>]
         ELSE [ret |-> TRUE,
               u |-> [u EXCEPT !.p = q, !.libcairo = TRUE],
               log |-> <<"dlopen:libcairo", "dlsym:libcairo">>]

----------------------------------------------------------------------------
(* The handlers of the dispatch table.  A handler's result: the statics it *)
(* leaves, its status, whether it returned at all, the calls it made into  *)
(* the dynamic loader and the two libraries (in order), and its outputs.   *)

Returned(u, status, log, out) ==
    [u |-> u, status |-> status, returned |-> TRUE, log |-> log, out |-> out]

\* a call through a null pointer, or undefined behaviour that faults
Killed(u, log, out) ==
    [u |-> u, status |-> "killed", returned |-> FALSE, log |-> log, out |-> out]

\* outcomes of rsvg_handle_new_from_data: a handle, NULL with a GError, NULL
ParseOutcomes == {"handle", "error", "null"}

\* outcomes of the two cairo constructors
NativeOutcomes == {"ok", "no_surface", "no_context"}

\* what undefined behaviour does when it is reached
UB == {"continue", "crash"}

HandleIds == 1..MaxHandles

\* the address the parser's allocator hands out: the lowest one free
NewHandle(u) == CHOOSE h \in HandleIds : h \notin u.handles /\
                    \A g \in HandleIds : g \notin u.handles => h <= g

\* a create handler that never releases the parser's error object
rsvg_create_handle_leaks_error(u, params, img, parse) ==
    LET l == load_librsvg(u, img)
        l1 == Append(l.log, "rsvg_handle_new_from_data")
    IN  IF ~l.ret THEN Returned(l.u, STATUS_NOT_SUPPORTED, l.log, NULL)
        ELSE IF parse = "handle"
             THEN Returned([l.u EXCEPT !.handles = @ \cup {NewHandle(l.u)}],
                           STATUS_SUCCESS, l1, NewHandle(l.u))
        ELSE Returned(l.u, STATUS_UNSUCCESSFUL, l1, NULL)

rsvg_create_handle(u, params, img, parse) ==
    LET l == load_librsvg(u, img) IN
    IF ~l.ret THEN Returned(l.u, STATUS_NOT_SUPPORTED, l.log, NULL)
    ELSE IF ~l.u.p["rsvg_handle_new_from_data"]
         THEN Killed(l.u, Append(l.log, "rsvg_handle_new_from_data"), NULL)
    ELSE LET l1 == Append(l.log, "rsvg_handle_new_from_data") IN
         IF parse = "handle"
         THEN LET h == NewHandle(l.u) IN
              Returned([l.u EXCEPT !.handles = @ \cup {h}], STATUS_SUCCESS, l1, h)
         ELSE IF parse = "error"
              THEN IF l.u.p["g_error_free"]
                   THEN Returned(l.u, STATUS_UNSUCCESSFUL, Append(l1, "g_error_free"), NULL)
                   ELSE Killed(l.u, Append(l1, "g_error_free"), NULL)
         ELSE Returned(l.u, STATUS_UNSUCCESSFUL, l1, NULL)

\* a free handler that forgets the unref
rsvg_free_handle_forgets(u, params, ub) == Returned(u, STATUS_SUCCESS, <<>>, NULL)

rsvg_free_handle(u, params, ub) ==
    IF params.handle # NULL /\ u.p["g_object_unref"]
    THEN IF u.librsvg_so /\ params.handle \in u.handles
         THEN Returned([u EXCEPT !.handles = @ \ {params.handle}],
                       STATUS_SUCCESS, <<"g_object_unref">>, NULL)
         \* the pointer outlived dlclose, or the handle is not a live object
         ELSE IF ub = "crash" THEN Killed(u, <<"g_object_unref">>, NULL)
         ELSE Returned([u EXCEPT !.handles = @ \ {params.handle}],
                       STATUS_SUCCESS, <<"g_object_unref">>, NULL)
    ELSE Returned(u, STATUS_SUCCESS, <<>>, NULL)

\* what a render call drew with: the arguments of cairo_scale and of the render call
NoDraw == [scale |-> <<>>, render |-> <<>>]

\* the locals surface and cr (non-null or not) with what was drawn
RenderOut(surface, cr, draw) ==
    [surface |-> surface, cr |-> cr, scale |-> draw.scale, render |-> draw.render]

\* a cleanup that resets the floating-point state after a drawn document only
RenderDoneResetAfterDrawing(u, log, surface, cr, destroyed, ret, draw, ub) ==
    LET out == RenderOut(surface, cr, draw)
        l1 == IF cr THEN Append(log, "cairo_destroy") ELSE log
        l2 == IF surface THEN Append(l1, "cairo_surface_destroy") ELSE l1
    IN
    IF (cr /\ ~u.p["cairo_destroy"]) \/ (surface /\ ~u.p["cairo_surface_destroy"])
       \/ (surface /\ destroyed /\ ub = "crash")
    THEN Killed(u, l2, out)
    ELSE Returned(u, ret, IF draw.render # <<>> THEN Append(l2, "fninit") ELSE l2, out)

(* done: destroy the context and the surface the locals still name, then   *)
(* fninit.  destroyed: the surface was already destroyed once.             *)
RenderDone(u, log, surface, cr, destroyed, ret, draw, ub) ==
    LET out == RenderOut(surface, cr, draw)
        l1 == IF cr THEN Append(log, "cairo_destroy") ELSE log
    IN
    IF cr /\ ~u.p["cairo_destroy"] THEN Killed(u, l1, out)
    ELSE LET l2 == IF surface THEN Append(l1, "cairo_surface_destroy") ELSE l1 IN
         IF surface /\ ~u.p["cairo_surface_destroy"] THEN Killed(u, l2, out)
         \* destroying a surface a second time is undefined
         ELSE IF surface /\ destroyed /\ ub = "crash" THEN Killed(u, l2, out)
         ELSE Returned(u, ret, Append(l2, "fninit"), out)

(* scale, viewport and the render call, with surface and cr in hand *)
RenderDraw(u, params, log, ub) ==
    LET scale_x == ScaleOf(params.width, params.svg_width)
        scale_y == ScaleOf(params.height, params.svg_height)
    IN  IF ScaleRejected(scale_x) \/ ScaleRejected(scale_y)
        THEN RenderDone(u, log, TRUE, TRUE, FALSE, STATUS_INVALID_PARAMETER, NoDraw, ub)
        ELSE LET l1 == Append(log, "cairo_scale")
                 d1 == [NoDraw EXCEPT !.scale = <<[x |-> scale_x, y |-> scale_y]>>]
             IN
             IF ~u.p["cairo_scale"] THEN Killed(u, l1, RenderOut(TRUE, TRUE, d1))
             ELSE LET l2 == Append(l1, "rsvg_handle_render_document")
                      viewport == [x |-> Num(0), y |-> Num(0),
                                   width |-> params.svg_width,
                                   height |-> params.svg_height]
                      d2 == [d1 EXCEPT !.render = <<[handle |-> params.handle,
                                                     viewport |-> viewport,
                                                     clip |-> NULL]>>]
                  IN
                  \* rendering something that is not a live RsvgHandle is undefined
                  IF params.handle \notin u.handles /\ ub = "crash"
                  THEN Killed(u, l2, RenderOut(TRUE, TRUE, d2))
                  ELSE RenderDone(u, l2, TRUE, TRUE, FALSE, STATUS_SUCCESS, d2, ub)

(* the surface over the caller's pixels and the context over the surface *)
RenderSurface(u, params, log, nat, ub) ==
    LET l1 == Append(log, "cairo_image_surface_create_for_data") IN
    IF ~u.p["cairo_image_surface_create_for_data"]
    THEN Killed(u, l1, RenderOut(FALSE, FALSE, NoDraw))
    ELSE IF nat = "no_surface"
         THEN RenderDone(u, l1, FALSE, FALSE, FALSE, STATUS_UNSUCCESSFUL, NoDraw, ub)
    ELSE LET l2 == Append(l1, "cairo_create") IN
         IF ~u.p["cairo_create"] THEN Killed(u, l2, RenderOut(TRUE, FALSE, NoDraw))
         ELSE IF nat = "no_context"
              THEN LET l3 == Append(l2, "cairo_surface_destroy") IN
                   IF ~u.p["cairo_surface_destroy"]
                   THEN Killed(u, l3, RenderOut(TRUE, FALSE, NoDraw))
                   ELSE RenderDone(u, l3, TRUE, FALSE, TRUE, STATUS_UNSUCCESSFUL,
                                   NoDraw, ub)
         ELSE RenderDraw(u, params, l2, ub)

\* parameter gates that forgot the row stride
RenderGatesNoStride(params) ==
    \/ params.handle = NULL \/ params.pixels = NULL
    \/ DLeq(params.svg_width, Threshold) /\ DLeq(params.svg_height, Threshold)
    \/ params.width = 0 \/ params.height = 0

(* the three parameter gates: null handle or pixels, a viewport with both *)
(* dimensions at or below 0.01, a zero width, height or stride            *)
RenderGates(params) ==
    \/ params.handle = NULL \/ params.pixels = NULL
    \/ DLeq(params.svg_width, Threshold) /\ DLeq(params.svg_height, Threshold)
    \/ params.width = 0 \/ params.height = 0 \/ params.stride = 0

(* both libraries, then the symbol test; || does not call load_cairo when *)
(* load_librsvg failed                                                     *)
RenderLoad(u, params, imgR, imgC, nat, ub) ==
    LET lr == load_librsvg(u, imgR) IN
    IF ~lr.ret
    THEN RenderDone(lr.u, lr.log, FALSE, FALSE, FALSE, STATUS_NOT_SUPPORTED, NoDraw, ub)
    ELSE LET lc == load_cairo(lr.u, imgC) IN
         IF ~lc.ret
         THEN RenderDone(lc.u, lr.log \o lc.log, FALSE, FALSE, FALSE,
                         STATUS_NOT_SUPPORTED, NoDraw, ub)
         ELSE IF ~lc.u.p["rsvg_handle_render_document"]
         THEN RenderDone(lc.u, lr.log \o lc.log, FALSE, FALSE, FALSE,
                         STATUS_NOT_SUPPORTED, NoDraw, ub)
         ELSE RenderSurface(lc.u, params, lr.log \o lc.log, nat, ub)

rsvg_render(u, params, imgR, imgC, nat, ub) ==
    IF RenderGates(params)
    THEN RenderDone(u, <<>>, FALSE, FALSE, FALSE, STATUS_INVALID_PARAMETER, NoDraw, ub)
    ELSE RenderLoad(u, params, imgR, imgC, nat, ub)

----------------------------------------------------------------------------
(* The caller of the dispatch table: UNIX_CALL runs one handler to its end *)
(* and hands its status back; the caller then goes on and the parameter    *)
(* block is gone.  `call` is the call whose status the caller holds.       *)

NoCall == [cmd |-> "none"]

Idle == call = NoCall /\ ~crashed

Dispatch(cmd, params, env, r) ==
    /\ librsvg_so' = r.u.librsvg_so
    /\ libcairo' = r.u.libcairo
    /\ p' = r.u.p
    /\ handles' = r.u.handles
    /\ crashed' = ~r.returned
    /\ call' = [cmd |-> cmd, params |-> params, env |-> env, status |-> r.status,
                returned |-> r.returned, log |-> r.log, out |-> r.out]
    /\ UNCHANGED <<pevars, lvars>>

\* lengths of the byte buffer handed to the parser
Sizes == {0, 100}

\* unix_rsvg_create_handle
CmdCreate(images) ==
    /\ Idle
    /\ \E size \in Sizes, img \in images, parse \in ParseOutcomes :
        \* the parser is a black box: it takes no empty document, and it can
        \* only return an object it has room for
        /\ parse = "handle" => size > 0 /\ Cardinality(handles) < MaxHandles
        /\ Dispatch("rsvg_create_handle",
                    [size |-> size, handle |-> NULL],
                    [rsvg |-> img],
                    rsvg_create_handle(Unix, [size |-> size, handle |-> NULL], img, parse))

\* unix_rsvg_free_handle
CmdFree ==
    /\ Idle
    /\ \E h \in {NULL} \cup HandleIds, ub \in UB :
        Dispatch("rsvg_free_handle", [handle |-> h], [rsvg |-> Absent],
                 rsvg_free_handle(Unix, [handle |-> h], ub))

\* unix_rsvg_render
CmdRender(requests, imagesR, imagesC) ==
    /\ Idle
    /\ \E params \in requests, imgR \in imagesR, imgC \in imagesC,
          nat \in NativeOutcomes, ub \in UB :
        Dispatch("rsvg_render", params, [rsvg |-> imgR, cairo |-> imgC],
                 rsvg_render(Unix, params, imgR, imgC, nat, ub))

\* the caller takes the status and goes on
Return ==
    /\ call # NoCall
    /\ ~crashed
    /\ call' = NoCall
    /\ UNCHANGED <<uvars, pevars, lvars>>

----------------------------------------------------------------------------
(* Threads of the process.  Unix calls run on the calling thread, and the  *)
(* unix side takes no lock.                                                *)

Threads == 1..NumThreads

Libs == {"librsvg", "libcairo"}

NotCalling == [cmd |-> "none", lib |-> "none", step |-> "idle", img |-> Absent,
               next |-> 1, result |-> "none"]

----------------------------------------------------------------------------
(* The PE side: the reference-counted document object of svg.c *)

DocIds == 1..MaxDocs

ViewportSizes == {[width |-> Num(10000), height |-> Num(10000)],
                  [width |-> Num(0), height |-> Num(0)]}

NoDoc == [state |-> "none", refcount |-> 0, viewport_size |-> [width |-> Num(0), height |-> Num(0)],
          rsvg_handle |-> NULL, factory |-> FALSE]

AtIdle == [at |-> "idle", doc |-> NULL, refcount |-> 0]

Sum2(f, S) ==
    LET RECURSIVE Go(_)
        Go(T) == IF T = {} THEN 0
                 ELSE LET x == CHOOSE y \in T : TRUE IN f[x] + Go(T \ {x})
    IN Go(S)

\* references to document d that some thread owns
Owned(d) == Sum2([t \in Threads |-> held[t][d]], Threads)

NoCreate == [hr |-> "none"]

NoRef == [op |-> "none"]

(* What the stream, the process heap, the parser and the disk do during   *)
(* one create call.  A step that is never reached keeps its first value.   *)
CreateInputs(images) ==
    {in \in [stat : BOOLEAN, alloc : BOOLEAN, read : BOOLEAN, read_len : Sizes,
             img : images, parse : ParseOutcomes, object : BOOLEAN] :
        /\ ~in.stat => in.alloc
        /\ ~(in.stat /\ in.alloc) => in.read
        /\ ~(in.stat /\ in.alloc /\ in.read) =>
              in.read_len = 0 /\ in.img = Absent /\ in.parse = "null" /\ in.object
        /\ in.parse # "handle" => in.object}

DocCreateInputs == CreateInputs(WholeImages(RsvgSyms))

Created(u, hr, status, object, handle, calls, log, returned) ==
    [u |-> u, hr |-> hr, status |-> status, object |-> object, handle |-> handle,
     calls |-> calls, log |-> log, returned |-> returned]

(* d2d_svg_document_create up to the point where the object is filled in:  *)
(* the HRESULT, the unix side's statics, whether an object was made, and   *)
(* params.handle as the create command left it                             *)
d2d_svg_document_create(u, unixlib, in) ==
    IF ~unixlib THEN Created(u, "E_NOTIMPL", "none", FALSE, NULL, <<>>, <<>>, TRUE)
    ELSE IF ~in.stat
    THEN Created(u, "E_FAIL", "none", FALSE, NULL, <<"IStream_Stat">>, <<>>, TRUE)
    ELSE IF ~in.alloc
    THEN Created(u, "E_OUTOFMEMORY", "none", FALSE, NULL,
                 <<"IStream_Stat", "heap_alloc">>, <<>>, TRUE)
    ELSE IF ~in.read
    THEN Created(u, "E_FAIL", "none", FALSE, NULL,
                 <<"IStream_Stat", "heap_alloc", "IStream_Read", "heap_free">>, <<>>, TRUE)
    ELSE LET c1 == <<"IStream_Stat", "heap_alloc", "IStream_Read", "rsvg_create_handle">>
             r == rsvg_create_handle(u, [size |-> in.read_len, handle |-> NULL],
                                     in.img, in.parse)
         IN
         IF ~r.returned
         THEN Created(r.u, "none", r.status, FALSE, NULL, c1, r.log, FALSE)
         ELSE IF r.status # STATUS_SUCCESS
         THEN Created(r.u, "E_FAIL", r.status, FALSE, r.out,
                      Append(c1, "heap_free"), r.log, TRUE)
         ELSE IF ~in.object
         THEN LET f == rsvg_free_handle(r.u, [handle |-> r.out], "crash") IN
              Created(f.u, IF f.returned THEN "E_OUTOFMEMORY" ELSE "none", r.status,
                      FALSE, r.out,
                      c1 \o <<"heap_free", "heap_alloc_zero", "rsvg_free_handle">>,
                      r.log \o f.log, f.returned)
         ELSE Created(r.u, "S_OK", r.status, TRUE, r.out,
                      c1 \o <<"heap_free", "heap_alloc_zero", "ID2D1Factory_AddRef">>,
                      r.log, TRUE)

SetUnix(u, returned) ==
    /\ librsvg_so' = u.librsvg_so
    /\ libcairo' = u.libcairo
    /\ p' = u.p
    /\ handles' = u.handles
    /\ crashed' = ~returned

\* ID2D1Factory_AddRef(document->factory = factory) and the one in GetFactory
ID2D1Factory_AddRef(refcount) == refcount + 1

\* a teardown that keeps the factory reference
ID2D1Factory_ReleaseForgotten(refcount) == refcount

\* ID2D1Factory_Release(document->factory)
ID2D1Factory_Release(refcount) == refcount - 1

FreeSlot(d) == docs[d].state = "none" /\ \A e \in DocIds : e < d => docs[e].state # "none"

\* no call is handing its result back, and the process is alive
Running == lastCreate = NoCreate /\ lastRef = NoRef /\ ~crashed

DocCreate(t) ==
    /\ pc[t].at = "idle" /\ Running
    /\ \E d \in {e \in DocIds : FreeSlot(e)}, viewport_size \in ViewportSizes,
          in \in DocCreateInputs :
        \* the parser is a black box: it takes no empty document, and it can
        \* only return an object it has room for
        /\ in.parse = "handle" => in.read_len > 0 /\ Cardinality(handles) < MaxHandles
        /\ LET r == d2d_svg_document_create(Unix, unixlib_handle, in) IN
           /\ SetUnix(r.u, r.returned)
           /\ docs' = IF r.object
                      THEN [docs EXCEPT ![d] = [state |-> "live", refcount |-> 1,
                                                viewport_size |-> viewport_size,
                                                rsvg_handle |-> r.handle,
                                                factory |-> TRUE]]
                      ELSE docs
           /\ held' = IF r.object THEN [held EXCEPT ![t][d] = 1] ELSE held
           /\ factory_refcount' = IF r.object THEN ID2D1Factory_AddRef(factory_refcount)
                                  ELSE factory_refcount
           /\ lastCreate' = [hr |-> r.hr, status |-> r.status, env |-> in.img,
                             size |-> in.read_len, parse |-> in.parse,
                             handle |-> r.handle,
                             document |-> IF r.object THEN d ELSE NULL,
                             calls |-> r.calls, log |-> r.log, returned |-> r.returned]
    /\ UNCHANGED <<lvars, call, unixlib_handle, pc, ops, torn, lastRef>>

\* an increment that counts twice
InterlockedIncrementTwice(v) == v + 2

InterlockedIncrement(v) == v + 1

InterlockedDecrement(v) == v - 1

\* d2d_svg_document_AddRef, by a thread while somebody owns a reference
AddRef(t, d) ==
    /\ pc[t].at = "idle" /\ Running
    /\ Owned(d) > 0
    /\ ops[d].addref < MaxAddRef
    /\ LET refcount == InterlockedIncrement(docs[d].refcount) IN
       /\ docs' = [docs EXCEPT ![d].refcount = refcount]
       /\ lastRef' = [op |-> "AddRef", doc |-> d, before |-> docs[d], ret |-> refcount]
    /\ held' = [held EXCEPT ![t][d] = @ + 1]
    /\ ops' = [ops EXCEPT ![d].addref = @ + 1]
    /\ UNCHANGED <<lvars, uvars, call, unixlib_handle, pc, factory_refcount, torn, lastCreate>>

\* the test of the count, one off
LastReferenceOneEarly(refcount) == refcount <= 1

\* if (!refcount)
LastReference(refcount) == refcount = 0

\* d2d_svg_document_Release: the interlocked decrement, by an owner
Release(t, d) ==
    /\ pc[t].at = "idle" /\ Running
    /\ held[t][d] > 0
    /\ LET refcount == InterlockedDecrement(docs[d].refcount) IN
       /\ docs' = [docs EXCEPT ![d].refcount = refcount]
       /\ lastRef' = [op |-> "Release", doc |-> d, before |-> docs[d], ret |-> refcount]
       /\ pc' = IF LastReference(refcount)
                THEN [pc EXCEPT ![t] = [at |-> "teardown", doc |-> d, refcount |-> refcount]]
                ELSE pc
    /\ held' = [held EXCEPT ![t][d] = @ - 1]
    /\ ops' = [ops EXCEPT ![d].release = @ + 1]
    /\ UNCHANGED <<lvars, uvars, call, unixlib_handle, factory_refcount, torn, lastCreate>>

\* a test that forgot the unix library handle
FreeIssuedWithoutBoundary(rsvg_handle, unixlib) == rsvg_handle # NULL

\* if (document->rsvg_handle && __wine_unixlib_handle)
FreeIssued(rsvg_handle, unixlib) == rsvg_handle # NULL /\ unixlib

\* d2d_svg_document_Release: the block that runs when the count reached zero
ReleaseTeardown(t) ==
    /\ pc[t].at = "teardown" /\ Running
    /\ LET d == pc[t].doc
           free == FreeIssued(docs[d].rsvg_handle, unixlib_handle)
           unref == docs[d].factory
       IN \E ub \in UB :
          LET f == IF free
                   THEN rsvg_free_handle(Unix, [handle |-> docs[d].rsvg_handle], ub)
                   ELSE Returned(Unix, STATUS_SUCCESS, <<>>, NULL)
          IN /\ SetUnix(f.u, f.returned)
             /\ factory_refcount' = IF f.returned /\ unref
                                    THEN ID2D1Factory_Release(factory_refcount)
                                    ELSE factory_refcount
             /\ docs' = IF f.returned THEN [docs EXCEPT ![d].state = "freed"] ELSE docs
             /\ torn' = [torn EXCEPT ![d] = Append(@,
                            [refcount |-> pc[t].refcount,
                             calls |-> (IF free THEN <<"rsvg_free_handle">> ELSE <<>>)
                                       \o (IF f.returned /\ unref
                                           THEN <<"ID2D1Factory_Release">> ELSE <<>>)
                                       \o (IF f.returned THEN <<"heap_free">> ELSE <<>>),
                             log |-> f.log])]
    /\ pc' = [pc EXCEPT ![t] = AtIdle]
    /\ UNCHANGED <<lvars, call, unixlib_handle, held, ops, lastCreate, lastRef>>

\* d2d_svg_document_GetFactory
GetFactory(t, d) ==
    /\ pc[t].at = "idle" /\ Running
    /\ Owned(d) > 0
    /\ ops[d].getfactory < MaxGetFactory
    /\ factory_refcount' = ID2D1Factory_AddRef(factory_refcount)
    /\ ops' = [ops EXCEPT ![d].getfactory = @ + 1]
    /\ UNCHANGED <<lvars, uvars, call, unixlib_handle, docs, held, pc, torn, lastCreate, lastRef>>

\* the caller of d2d_svg_document_create takes the HRESULT and goes on
CreateReturn ==
    /\ lastCreate # NoCreate
    /\ ~crashed
    /\ lastCreate' = NoCreate
    /\ UNCHANGED <<lvars, uvars, call, unixlib_handle, docs, held, pc, factory_refcount,
                   ops, torn, lastRef>>

\* the caller of AddRef or Release takes the count and goes on
RefReturn ==
    /\ lastRef # NoRef
    /\ ~crashed
    /\ lastRef' = NoRef
    /\ UNCHANGED <<lvars, uvars, call, unixlib_handle, docs, held, pc, factory_refcount,
                   ops, torn, lastCreate>>

InitPE ==
    /\ docs = [d \in DocIds |-> NoDoc]
    /\ held = [t \in Threads |-> [d \in DocIds |-> 0]]
    /\ pc = [t \in Threads |-> AtIdle]
    /\ factory_refcount = 1
    /\ ops = [d \in DocIds |-> [addref |-> 0, release |-> 0, getfactory |-> 0]]
    /\ torn = [d \in DocIds |-> <<>>]
    /\ lastCreate = NoCreate
    /\ lastRef = NoRef

InitUnix ==
    /\ librsvg_so = FALSE
    /\ libcairo = FALSE
    /\ p = [s \in Syms |-> FALSE]
    /\ handles = {}
    /\ call = NoCall
    /\ crashed = FALSE
    /\ ld = [t \in Threads |-> NotCalling]
    /\ dl = [lib \in Libs |-> [opens |-> 0, resolves |-> 0, closes |-> 0,
                               image |-> Absent]]

Request(h, px, sw, sh, w, ht, st) ==
    [handle |-> h, pixels |-> px, svg_width |-> sw, svg_height |-> sh,
     width |-> w, height |-> ht, stride |-> st]

\* viewport dimensions: NaN, -1.0, 0.0, 0.01, 0.02, 100.0
SvgDims == {NaN, Num(0 - 100), Num(0), Num(1), Num(2), Num(10000)}

\* bitmap widths and heights
PixelDims == {0, 5, 50}

Strides == {0, 200}

Pointers == {NULL, 1}

RenderRequests ==
    {Request(h, px, sw, sh, w, ht, st) :
        h \in {NULL} \cup HandleIds, px \in Pointers, sw \in SvgDims, sh \in SvgDims,
        w \in PixelDims, ht \in PixelDims, st \in Strides}

(* the requests the loader is exercised with: the 50x50 bitmap of a       *)
(* 100x100 viewport, the same with an out-of-range scale, and one that    *)
(* fails the first gate                                                    *)
ProbeRequests ==
    {Request(h, 1, sw, Num(10000), 50, 50, 200) :
        h \in {NULL} \cup HandleIds, sw \in {Num(10000), Num(2)}}

(* Spec: the three commands against every library image *)
Init == InitUnix /\ InitPE /\ unixlib_handle = TRUE

Next ==
    \/ CmdCreate(RsvgImages)
    \/ CmdFree
    \/ CmdRender(ProbeRequests, RsvgImages, CairoImages)
    \/ Return

Spec == Init /\ [][Next]_vars

(* SpecRender: every render request, against libraries that are absent or  *)
(* complete                                                                *)
NextRender ==
    \/ CmdCreate(WholeImages(RsvgSyms))
    \/ CmdFree
    \/ CmdRender(RenderRequests, WholeImages(RsvgSyms), WholeImages(CairoSyms))
    \/ Return

SpecRender == Init /\ [][NextRender]_vars

(* SpecDoc: threads creating, sharing and releasing document objects; the *)
(* unix library is there or not for the life of the process               *)
InitDoc == InitUnix /\ InitPE /\ unixlib_handle \in BOOLEAN

NextDoc ==
    \/ \E t \in Threads : DocCreate(t)
    \/ CreateReturn
    \/ \E t \in Threads, d \in DocIds : AddRef(t, d)
    \/ \E t \in Threads, d \in DocIds : Release(t, d)
    \/ RefReturn
    \/ \E t \in Threads : ReleaseTeardown(t)
    \/ \E t \in Threads, d \in DocIds : GetFactory(t, d)

SpecDoc == InitDoc /\ [][NextDoc]_vars

(* __wine_unixlib_handle is set where the module is loaded, outside these  *)
(* files; both functions read it each time they run.  Here it goes away    *)
(* while the process runs.                                                 *)
UnixlibLost ==
    /\ Running
    /\ unixlib_handle
    /\ unixlib_handle' = FALSE
    /\ UNCHANGED <<lvars, uvars, call, docs, held, pc, factory_refcount, ops, torn,
                   lastCreate, lastRef>>

(* SpecBoundary: SpecDoc where the unix library handle can be lost *)
NextBoundary ==
    \/ \E t \in Threads : DocCreate(t)
    \/ CreateReturn
    \/ \E t \in Threads, d \in DocIds : AddRef(t, d)
    \/ \E t \in Threads, d \in DocIds : Release(t, d)
    \/ RefReturn
    \/ \E t \in Threads : ReleaseTeardown(t)
    \/ \E t \in Threads, d \in DocIds : GetFactory(t, d)
    \/ UnixlibLost

SpecBoundary == InitDoc /\ [][NextBoundary]_vars

----------------------------------------------------------------------------
(* The loaders statement by statement, for threads that enter the unix     *)
(* side at the same time.  Each thread makes one call, a create or a       *)
(* render whose parameters pass the gates, and runs load_librsvg (and, for *)
(* a render, load_cairo) one statement at a time against the shared        *)
(* statics; then it calls through the first pointer its command uses.      *)

SymsOf(lib) == IF lib = "librsvg" THEN RsvgSyms ELSE CairoSyms

CheckedOf(lib) == IF lib = "librsvg" THEN RsvgChecked ELSE CairoChecked

\* the dlsym assignments of a loader, in the order it makes them
DlsymOrder(lib) ==
    IF lib = "librsvg"
    THEN <<"rsvg_handle_new_from_data", "g_object_unref", "g_error_free",
           "rsvg_handle_render_document">>
    ELSE <<"cairo_image_surface_create_for_data", "cairo_create", "cairo_destroy",
           "cairo_surface_destroy", "cairo_scale">>

\* the static handle of a library
So(lib) == IF lib = "librsvg" THEN librsvg_so ELSE libcairo

\* what is on disk while the threads race: the whole library, or one short of a symbol
\* its loader tests
RaceImages(lib) ==
    {Image(SymsOf(lib)),
     Image(SymsOf(lib) \ {IF lib = "librsvg" THEN "rsvg_handle_render_document"
                                             ELSE "cairo_create"})}

\* dlopen minus dlclose: the library is mapped while this is positive
Mapped(lib) == dl[lib].opens - dl[lib].closes

SetSo(lib, v) ==
    /\ librsvg_so' = IF lib = "librsvg" THEN v ELSE librsvg_so
    /\ libcairo' = IF lib = "libcairo" THEN v ELSE libcairo

\* a thread enters rsvg_create_handle or rsvg_render and reaches load_librsvg
RaceCall(t) ==
    /\ ~crashed
    /\ ld[t].step = "idle" /\ ld[t].cmd = "none"
    /\ \E cmd \in {"create", "render"} :
        ld' = [ld EXCEPT ![t] = [@ EXCEPT !.cmd = cmd, !.lib = "librsvg",
                                          !.step = "check"]]
    /\ UNCHANGED <<uvars, call, pevars, dl>>

\* load returned TRUE: a render goes on to load_cairo, then the pointers are used
Loaded(r) ==
    IF r.cmd = "render" /\ r.lib = "librsvg"
    THEN [r EXCEPT !.lib = "libcairo", !.step = "check"]
    ELSE [r EXCEPT !.step = "use"]

\* if (lib) return TRUE;
LoadCheck(t) ==
    /\ ~crashed
    /\ ld[t].step = "check"
    /\ ld' = [ld EXCEPT ![t] = IF So(@.lib) THEN Loaded(@) ELSE [@ EXCEPT !.step = "dlopen"]]
    /\ UNCHANGED <<uvars, call, pevars, dl>>

(* lib = dlopen(...): the library is read from disk, unless it is mapped   *)
(* already, and then dlopen hands out the mapped one again                 *)
LoadOpen(t) ==
    /\ ~crashed
    /\ ld[t].step = "dlopen"
    /\ \E img \in IF Mapped(ld[t].lib) > 0 THEN {dl[ld[t].lib].image}
                   ELSE RaceImages(ld[t].lib) :
        /\ SetSo(ld[t].lib, img.present)
        /\ ld' = [ld EXCEPT ![t] = [@ EXCEPT !.step = "dlsym", !.img = img]]
        /\ dl' = [dl EXCEPT ![ld[t].lib].opens = @ + 1, ![ld[t].lib].image = img]
    /\ UNCHANGED <<p, handles, crashed, call, pevars>>

\* p_... = dlsym(lib, "..."): one assignment
LoadResolve(t) ==
    /\ ~crashed
    /\ ld[t].step = "dlsym"
    /\ LET order == DlsymOrder(ld[t].lib)
           s == order[ld[t].next]
           last == ld[t].next = Len(order)
       IN /\ p' = Bind(Unix, {s}, ld[t].img)
          /\ ld' = [ld EXCEPT ![t] =
                        IF last THEN [@ EXCEPT !.step = "test", !.img = Absent, !.next = 1]
                        ELSE [@ EXCEPT !.next = @ + 1]]
          /\ dl' = IF last THEN [dl EXCEPT ![ld[t].lib].resolves = @ + 1] ELSE dl
    /\ UNCHANGED <<librsvg_so, libcairo, handles, crashed, call, pevars>>

\* the test of the pointers after the dlsym calls
LoadTest(t) ==
    /\ ~crashed
    /\ ld[t].step = "test"
    /\ ld' = [ld EXCEPT ![t] = IF \E s \in CheckedOf(@.lib) : ~p[s]
                               THEN [@ EXCEPT !.step = "dlclose"]
                               ELSE Loaded(@)]
    /\ UNCHANGED <<uvars, call, pevars, dl>>

\* dlclose(lib)
LoadClose(t) ==
    /\ ~crashed
    /\ ld[t].step = "dlclose"
    /\ dl' = [dl EXCEPT ![ld[t].lib].closes = @ + 1]
    /\ ld' = [ld EXCEPT ![t] = [@ EXCEPT !.step = "clear"]]
    /\ UNCHANGED <<uvars, call, pevars>>

\* lib = NULL; return FALSE: the command returns STATUS_NOT_SUPPORTED
LoadClear(t) ==
    /\ ~crashed
    /\ ld[t].step = "clear"
    /\ SetSo(ld[t].lib, FALSE)
    /\ ld' = [ld EXCEPT ![t] = [@ EXCEPT !.step = "done", !.result = "not_supported"]]
    /\ UNCHANGED <<p, handles, crashed, call, pevars, dl>>

\* the pointer a command calls first once its loads returned TRUE
FirstCall(cmd) == IF cmd = "create" THEN "rsvg_handle_new_from_data"
                  ELSE "cairo_image_surface_create_for_data"

(* the first call through a pointer after the loads: a render first tests  *)
(* p_rsvg_handle_render_document.  A null pointer faults; a pointer into a *)
(* library that is no longer mapped is undefined.                          *)
LoadUse(t) ==
    /\ ~crashed
    /\ ld[t].step = "use"
    /\ \E ub \in UB :
        LET r == ld[t]
            result ==
                IF r.cmd = "render" /\ ~p["rsvg_handle_render_document"]
                THEN "not_supported"
                ELSE IF ~p[FirstCall(r.cmd)] THEN "null_call"
                ELSE IF Mapped(r.lib) = 0 THEN "closed_call"
                ELSE "called"
        IN  /\ ld' = [ld EXCEPT ![t] = [@ EXCEPT !.step = "done", !.result = result]]
            /\ crashed' = (result = "null_call" \/ (result = "closed_call" /\ ub = "crash"))
    /\ UNCHANGED <<librsvg_so, libcairo, p, handles, call, pevars, dl>>

NextRace ==
    \/ \E t \in Threads : RaceCall(t)
    \/ \E t \in Threads : LoadCheck(t)
    \/ \E t \in Threads : LoadOpen(t)
    \/ \E t \in Threads : LoadResolve(t)
    \/ \E t \in Threads : LoadTest(t)
    \/ \E t \in Threads : LoadClose(t)
    \/ \E t \in Threads : LoadClear(t)
    \/ \E t \in Threads : LoadUse(t)

SpecRace == Init /\ [][NextRace]_vars

----------------------------------------------------------------------------
(* Claims *)

Count(log, x) == Cardinality({i \in 1..Len(log) : log[i] = x})

\* the three steps of a teardown, in the order Release makes them
FullTeardown == <<"rsvg_free_handle", "ID2D1Factory_Release", "heap_free">>

\* some thread is between the decrement that reached zero and the teardown
Releasing(d) == \E t \in Threads : pc[t].at = "teardown" /\ pc[t].doc = d

(* C1: a document is torn down at most once; a teardown is the Free       *)
(* command, the factory release and the freeing of the object, made by a  *)
(* Release whose decrement returned 0, after N AddRef and N+1 Release     *)
(* calls; no teardown happens while fewer Releases than that were made,   *)
(* and once the N+1 Releases are over the teardown has happened.          *)
C1_TeardownExactlyOnce ==
    \A d \in DocIds :
        /\ Len(torn[d]) <= 1
        /\ \A i \in 1..Len(torn[d]) :
              torn[d][i].refcount = 0 /\ torn[d][i].calls = FullTeardown
        /\ torn[d] # <<>> => ops[d].release = ops[d].addref + 1
        /\ \A t \in Threads : pc[t].at = "teardown" => pc[t].refcount = 0
        /\ (docs[d].state # "none" /\ ops[d].release = ops[d].addref + 1
               /\ ~Releasing(d) /\ Running)
            => Len(torn[d]) = 1 /\ docs[d].state = "freed"

\* C1 witness: two AddRefs and three Releases later the object is gone, torn down once
C1_Witness ==
    \E d \in DocIds :
        /\ ops[d].addref = 2 /\ ops[d].release = 3
        /\ Len(torn[d]) = 1 /\ docs[d].state = "freed"

\* no thread is inside Release
Quiet == \A t \in Threads : pc[t].at = "idle"

LiveDocs == {d \in DocIds : docs[d].state = "live"}

(* C2: while no Release is under way and the unix library is there, the   *)
(* RsvgHandle objects outstanding are exactly the handles of the live     *)
(* document objects, one each: the last Release leaves none behind, and a *)
(* create that fails to allocate its object has released the handle.      *)
C2_HandlesMatchDocuments ==
    (Quiet /\ unixlib_handle /\ ~crashed) =>
        /\ handles = {docs[d].rsvg_handle : d \in LiveDocs}
        /\ Cardinality(handles) = Cardinality(LiveDocs)
        /\ (lastCreate # NoCreate /\ lastCreate.hr # "S_OK"
               /\ lastCreate.status = STATUS_SUCCESS)
            => Count(lastCreate.log, "g_object_unref") = 1

\* C2 witness: a document was created and released for the last time; no handle is left
C2_Witness ==
    /\ Quiet /\ unixlib_handle /\ ~crashed
    /\ \E d \in DocIds : docs[d].state = "freed" /\ Len(torn[d]) = 1
    /\ handles = {}

IsRender == call.cmd = "rsvg_render"

\* calls made into librsvg and cairo (the loader's dlopen, dlsym, dlclose are not)
NativeCalls(log) == Cardinality({i \in 1..Len(log) : log[i] \in Syms})

ScaleX(params) == ScaleOf(params.width, params.svg_width)

ScaleY(params) == ScaleOf(params.height, params.svg_height)

\* x lies in (0, 1000]
InRange(x) == x.k = "num" /\ x.n > 0 /\ x.n <= ScaleMax * x.d

(* C3: a render request whose scale on either axis is outside (0,1000]   *)
(* returns InvalidParameter and makes no call into either library: no     *)
(* surface, no context, no scale call, no render call.                    *)
C3_OutOfRangeScaleRejected ==
    (IsRender /\ (~InRange(ScaleX(call.params)) \/ ~InRange(ScaleY(call.params))))
        => call.status = STATUS_INVALID_PARAMETER /\ NativeCalls(call.log) = 0

(* C4: when a render call returns, the surface it created was destroyed   *)
(* once, the context it created was destroyed once, and the context went  *)
(* before the surface.                                                     *)
C4_DestroyedOnceInOrder ==
    (IsRender /\ call.returned) =>
        /\ Count(call.log, "cairo_surface_destroy") = (IF call.out.surface THEN 1 ELSE 0)
        /\ Count(call.log, "cairo_destroy") = (IF call.out.cr THEN 1 ELSE 0)
        /\ (call.out.surface /\ call.out.cr) =>
              \E i, j \in 1..Len(call.log) :
                  /\ i < j
                  /\ call.log[i] = "cairo_destroy"
                  /\ call.log[j] = "cairo_surface_destroy"

(* C5: each library is either not loaded with all its pointers null, or   *)
(* loaded with every required pointer set (four of librsvg, five of       *)
(* cairo).                                                                 *)
C5_LoadedOrAllNull ==
    /\ \/ ~librsvg_so /\ \A s \in RsvgSyms : ~p[s]
       \/ librsvg_so /\ \A s \in RsvgSyms : p[s]
    /\ \/ ~libcairo /\ \A s \in CairoSyms : ~p[s]
       \/ libcairo /\ \A s \in CairoSyms : p[s]

(* C6: when librsvg cannot be loaded, d2d_svg_document_create returns the *)
(* not-supported HRESULT, not the one of a parse or read failure, and     *)
(* makes no document.                                                      *)
C6_UnavailableIsNotSupported ==
    (lastCreate # NoCreate /\ lastCreate.status = STATUS_NOT_SUPPORTED)
        => lastCreate.hr = "E_NOTIMPL" /\ lastCreate.document = NULL

\* a load of the library was attempted in the call that just returned
Attempted(lib) == Count(call.log, "dlopen:" \o lib) > 0

(* C7: a load that found the library absent or short of a required symbol *)
(* leaves it not loaded; and a create or render call that passes the      *)
(* parameter gates while the libraries on disk are complete ends with the *)
(* libraries loaded, every pointer bound, and no not-supported status.    *)
C7_FailedLoadNotCached ==
    /\ (call.cmd \in {"rsvg_create_handle", "rsvg_render"} /\ Attempted("librsvg")
           /\ call.env.rsvg # Image(RsvgSyms)) => ~librsvg_so
    /\ (IsRender /\ Attempted("libcairo") /\ call.env.cairo # Image(CairoSyms))
           => ~libcairo
    /\ (call.cmd = "rsvg_create_handle" /\ call.env.rsvg = Image(RsvgSyms))
           => /\ librsvg_so /\ \A s \in RsvgSyms : p[s]
              /\ call.status # STATUS_NOT_SUPPORTED
    /\ (IsRender /\ ~RenderGates(call.params)
           /\ call.env.rsvg = Image(RsvgSyms) /\ call.env.cairo = Image(CairoSyms))
           => /\ librsvg_so /\ libcairo /\ \A s \in Syms : p[s]
              /\ call.status # STATUS_NOT_SUPPORTED

(* C8: a render call that returns has reset the floating-point state once, *)
(* as the last thing it did.                                               *)
C8_FpResetLast ==
    (IsRender /\ call.returned) =>
        /\ Count(call.log, "fninit") = 1
        /\ call.log[Len(call.log)] = "fninit"

\* C8 witness: a render call that failed to create its context returned, fninit last
C8_Witness ==
    /\ IsRender /\ call.returned
    /\ call.status = STATUS_UNSUCCESSFUL /\ call.out.surface
    /\ call.log[Len(call.log)] = "fninit"

\* x <= 0.01
AtOrBelowThreshold(x) == x.k = "num" /\ x.v <= Threshold

(* C9: a render request with a null handle, a null buffer, both viewport  *)
(* dimensions at or below 0.01, or a zero width, height or stride returns *)
(* InvalidParameter having called neither dlopen nor any library function.*)
C9_GatesBeforeLoad ==
    (IsRender /\ (\/ call.params.handle = NULL
                  \/ call.params.pixels = NULL
                  \/ /\ AtOrBelowThreshold(call.params.svg_width)
                     /\ AtOrBelowThreshold(call.params.svg_height)
                  \/ call.params.width = 0
                  \/ call.params.height = 0
                  \/ call.params.stride = 0))
        => /\ call.returned
           /\ call.status = STATUS_INVALID_PARAMETER
           /\ call.log = <<"fninit">>

\* C9 witness: a zero stride in an otherwise good request, nothing loaded yet and both
\* libraries on disk: InvalidParameter, and still nothing loaded
C9_Witness ==
    /\ IsRender /\ call.status = STATUS_INVALID_PARAMETER
    /\ call.params.stride = 0 /\ call.params.handle # NULL /\ call.params.pixels # NULL
    /\ call.params.width = 50 /\ call.params.height = 50
    /\ call.params.svg_width = Num(10000) /\ call.params.svg_height = Num(10000)
    /\ call.env.rsvg = Image(RsvgSyms) /\ call.env.cairo = Image(CairoSyms)
    /\ ~librsvg_so /\ ~libcairo

(* C10: a render request with either viewport dimension at or below 0.01  *)
(* is rejected with InvalidParameter and reaches neither the surface      *)
(* creation nor the render call.                                          *)
C10_EachDimensionGated ==
    (IsRender /\ (\/ AtOrBelowThreshold(call.params.svg_width)
                  \/ AtOrBelowThreshold(call.params.svg_height)))
        => /\ call.status = STATUS_INVALID_PARAMETER
           /\ Count(call.log, "cairo_image_surface_create_for_data") = 0
           /\ Count(call.log, "rsvg_handle_render_document") = 0

(* C11: AddRef returns the count after its increment and Release the      *)
(* count after its decrement, and neither changes another field of the    *)
(* object; so on a live object with count c >= 1 an AddRef returns c+1    *)
(* and the Release after it returns c, leaves the count at c and tears    *)
(* nothing down.                                                           *)
C11_AddRefReleaseReturns ==
    lastRef # NoRef =>
        LET c == lastRef.before.refcount
            after == docs[lastRef.doc]
        IN  /\ lastRef.op = "AddRef" =>
                  /\ lastRef.ret = c + 1
                  /\ after = [lastRef.before EXCEPT !.refcount = c + 1]
                  /\ c >= 1 =>
                        /\ InterlockedDecrement(after.refcount) = c
                        /\ ~LastReference(InterlockedDecrement(after.refcount))
            /\ lastRef.op = "Release" =>
                  /\ lastRef.ret = c - 1
                  /\ after = [lastRef.before EXCEPT !.refcount = c - 1]
                  /\ (\E t \in Threads : pc[t].at = "teardown" /\ pc[t].doc = lastRef.doc)
                        <=> lastRef.ret = 0

\* C11 witness: one AddRef and then one Release were made on a document with count 1;
\* the Release found 2, returned 1, and the document lives on with its fields as they were
C11_Witness ==
    /\ lastRef # NoRef /\ lastRef.op = "Release"
    /\ ops[lastRef.doc].addref = 1 /\ ops[lastRef.doc].release = 1
    /\ lastRef.before.refcount = 2 /\ lastRef.ret = 1
    /\ docs[lastRef.doc].state = "live" /\ docs[lastRef.doc].refcount = 1
    /\ torn[lastRef.doc] = <<>>

(* C12: while no load has failed, each library has been opened at most    *)
(* once and its symbols resolved at most once, however the threads' first *)
(* calls interleave.                                                       *)
C12_LoadRunsAtMostOnce ==
    \A lib \in Libs :
        dl[lib].closes = 0 => dl[lib].opens <= 1 /\ dl[lib].resolves <= 1

(* C13: a thread whose loads returned TRUE never calls through a null     *)
(* pointer or a pointer into a library that has been closed.              *)
C13_NoCallThroughUnboundPointer ==
    \A t \in Threads : ld[t].result \notin {"null_call", "closed_call"}

\* the call that is made in this step touched the loader of lib in no way
Untouched(lib) ==
    (call = NoCall /\ call' # NoCall) =>
        \A x \in {"dlopen:", "dlsym:", "dlclose:"} : Count(call'.log, x \o lib) = 0

(* C14: once a library is loaded, every step leaves it loaded and leaves  *)
(* each of its pointers as it was, no call opens, binds or closes it      *)
(* again, and no call fails for want of it; so in any sequence of calls a *)
(* library is opened with success at most once.                           *)
C14_LoadIdempotent ==
    [][ /\ librsvg_so =>
              /\ librsvg_so' /\ \A s \in RsvgSyms : p'[s] = p[s]
              /\ Untouched("librsvg")
              /\ (call = NoCall /\ call' # NoCall /\ call'.cmd = "rsvg_create_handle")
                    => call'.status # STATUS_NOT_SUPPORTED
        /\ libcairo =>
              /\ libcairo' /\ \A s \in CairoSyms : p'[s] = p[s]
              /\ Untouched("libcairo")
        /\ (librsvg_so /\ libcairo /\ call = NoCall /\ call' # NoCall)
              => call'.status # STATUS_NOT_SUPPORTED
      ]_vars

\* C14 witness: with librsvg loaded and then removed from disk, a create call went
\* straight to the parser and succeeded
C14_Witness ==
    /\ call.cmd = "rsvg_create_handle" /\ call.env.rsvg = Absent
    /\ call.log = <<"rsvg_handle_new_from_data">>
    /\ call.status = STATUS_SUCCESS /\ librsvg_so

(* C15: the Free command returns success, attempts no load, and calls     *)
(* g_object_unref exactly when the handle is non-null and librsvg is      *)
(* loaded; otherwise it makes no call into the library.                   *)
C15_FreeUnrefsIffLoaded ==
    call.cmd = "rsvg_free_handle" =>
        /\ call.returned /\ call.status = STATUS_SUCCESS
        /\ Count(call.log, "dlopen:librsvg") = 0
        /\ NativeCalls(call.log) = Count(call.log, "g_object_unref")
        /\ Count(call.log, "g_object_unref") =
              (IF call.params.handle # NULL /\ librsvg_so THEN 1 ELSE 0)

\* the create command of the last d2d_svg_document_create got as far as the parser
ParserCalled == Count(lastCreate.log, "rsvg_handle_new_from_data") = 1

(* C16: the create command returns success exactly when it leaves a       *)
(* handle in the parameter block; a failed load gives not-supported and a *)
(* parser that returned no handle gives a failure, both with a null       *)
(* handle; the parser's error object is freed once when there is one and  *)
(* never otherwise; and d2d_svg_document_create then fails without        *)
(* allocating or handing out a document.                                  *)
C16_SuccessIffHandle ==
    (lastCreate # NoCreate /\ lastCreate.status # "none") =>
        /\ lastCreate.returned
        /\ lastCreate.status = STATUS_SUCCESS <=> lastCreate.handle # NULL
        /\ ~ParserCalled =>
              /\ lastCreate.status = STATUS_NOT_SUPPORTED
              /\ lastCreate.env = Absent /\ ~librsvg_so
        /\ (ParserCalled /\ lastCreate.parse # "handle") =>
              lastCreate.status = STATUS_UNSUCCESSFUL
        /\ (ParserCalled /\ lastCreate.parse = "handle") =>
              lastCreate.status = STATUS_SUCCESS
        /\ lastCreate.size = 0 => lastCreate.handle = NULL
        /\ Count(lastCreate.log, "g_error_free") =
              (IF ParserCalled /\ lastCreate.parse = "error" THEN 1 ELSE 0)
        /\ lastCreate.status # STATUS_SUCCESS =>
              /\ lastCreate.hr = "E_FAIL"
              /\ lastCreate.document = NULL
              /\ Count(lastCreate.calls, "heap_alloc_zero") = 0
              /\ \A d \in DocIds : docs[d].state = "none"
                                   \/ docs[d].rsvg_handle # NULL

\* C16 witness: the parser refused a 100-byte document with an error object; the error
\* was freed, no handle came back, and the create failed without a document
C16_Witness ==
    /\ lastCreate # NoCreate /\ lastCreate.status = STATUS_UNSUCCESSFUL
    /\ lastCreate.size = 100 /\ lastCreate.parse = "error"
    /\ lastCreate.log = <<"dlopen:librsvg", "dlsym:librsvg",
                          "rsvg_handle_new_from_data", "g_error_free">>
    /\ lastCreate.handle = NULL /\ lastCreate.hr = "E_FAIL"
    /\ lastCreate.document = NULL

\* the place of the first x in a log, 0 when there is none
First(log, x) ==
    IF Count(log, x) = 0 THEN 0
    ELSE CHOOSE i \in 1..Len(log) : log[i] = x /\ \A j \in 1..(i - 1) : log[j] # x

(* C17: a render call that returns has status success exactly when it     *)
(* made the render call, which it makes at most once; the render call     *)
(* comes after one cairo_scale by (width / svg_width, height /            *)
(* svg_height), both in (0,1000], and is given the handle, the viewport   *)
(* (0, 0, svg_width, svg_height) and no clip.                             *)
C17_SuccessIffRendered ==
    (IsRender /\ call.returned) =>
        LET n == Count(call.log, "rsvg_handle_render_document") IN
        /\ n <= 1
        /\ call.status = STATUS_SUCCESS <=> n = 1
        /\ n = 1 =>
              /\ Count(call.log, "cairo_scale") = 1
              /\ First(call.log, "cairo_scale")
                     < First(call.log, "rsvg_handle_render_document")
              /\ call.out.scale = <<[x |-> ScaleX(call.params), y |-> ScaleY(call.params)]>>
              /\ InRange(ScaleX(call.params)) /\ InRange(ScaleY(call.params))
              /\ call.out.render =
                     <<[handle |-> call.params.handle,
                        viewport |-> [x |-> Num(0), y |-> Num(0),
                                      width |-> call.params.svg_width,
                                      height |-> call.params.svg_height],
                        clip |-> NULL]>>

\* gates 1 to 3 of a request: null handle or buffer, viewport, zero dimension
ParameterGateUnmet(params) ==
    \/ params.handle = NULL \/ params.pixels = NULL
    \/ AtOrBelowThreshold(params.svg_width) /\ AtOrBelowThreshold(params.svg_height)
    \/ params.width = 0 \/ params.height = 0 \/ params.stride = 0

\* the call asked for a surface, or for a context, and got none
CreationFailed ==
    \/ Count(call.log, "cairo_image_surface_create_for_data") = 1 /\ ~call.out.surface
    \/ Count(call.log, "cairo_create") = 1 /\ ~call.out.cr

(* the status of the first unmet gate: parameters, both libraries loaded, *)
(* surface and context, scale in (0,1000]                                  *)
FirstUnmetGate ==
    IF ParameterGateUnmet(call.params) THEN STATUS_INVALID_PARAMETER
    ELSE IF ~(librsvg_so /\ libcairo) THEN STATUS_NOT_SUPPORTED
    ELSE IF CreationFailed THEN STATUS_UNSUCCESSFUL
    ELSE IF ~InRange(ScaleX(call.params)) \/ ~InRange(ScaleY(call.params))
         THEN STATUS_INVALID_PARAMETER
    ELSE STATUS_SUCCESS

(* C18: the status a render call returns is the one of the first gate it  *)
(* does not meet, in the order parameters (null handle or buffer,         *)
(* viewport, zero dimension), load of both libraries, surface, context,   *)
(* scale in (0,1000]: InvalidParameter for a parameter or scale gate,     *)
(* NotSupported for a failed load, Unsuccessful for a failed surface or   *)
(* context, after which neither cairo_scale nor the render call is made.  *)
C18_StatusOfFirstUnmetGate ==
    (IsRender /\ call.returned) =>
        /\ call.status = FirstUnmetGate
        /\ call.status = STATUS_UNSUCCESSFUL =>
              /\ Count(call.log, "cairo_scale") = 0
              /\ Count(call.log, "rsvg_handle_render_document") = 0

(* C19: a teardown that runs while the unix library handle is null issues  *)
(* no Free command and leaves the native object alone, releases the        *)
(* factory once, frees the object, and belongs to the Release whose       *)
(* count is 0; a create that runs while the handle is null returns         *)
(* E_NOTIMPL having called nothing: no stream read, no allocation, no      *)
(* unix call.                                                              *)
C19_BoundaryUnavailable ==
    [][~unixlib_handle =>
          /\ \A d \in DocIds :
                Len(torn'[d]) > Len(torn[d]) =>
                    LET e == torn'[d][Len(torn'[d])] IN
                    /\ e.calls = <<"ID2D1Factory_Release", "heap_free">>
                    /\ e.log = <<>>
                    /\ e.refcount = 0
                    /\ handles' = handles
                    /\ factory_refcount' = factory_refcount - 1
                    /\ docs'[d].state = "freed"
          /\ (lastCreate = NoCreate /\ lastCreate' # NoCreate) =>
                /\ lastCreate'.hr = "E_NOTIMPL"
                /\ lastCreate'.calls = <<>>
                /\ lastCreate'.log = <<>>
                /\ lastCreate'.document = NULL
                /\ docs' = docs /\ factory_refcount' = factory_refcount]_vars

\* C19 witness: with the unix library handle null, an object whose native handle is
\* still live was torn down without a Free command and the factory is back at its count
C19_Witness ==
    /\ ~unixlib_handle
    /\ \E d \in DocIds :
          /\ docs[d].state = "freed"
          /\ docs[d].rsvg_handle \in handles
          /\ Len(torn[d]) = 1
          /\ torn[d][1].calls = <<"ID2D1Factory_Release", "heap_free">>
          /\ torn[d][1].refcount = 0
          /\ factory_refcount = 1 + ops[d].getfactory

\* objects that were created and whose teardown has not released the factory
HoldingFactory == {d \in DocIds : docs[d].state = "live"}

\* GetFactory calls so far
GetFactoryCalls == Sum2([d \in DocIds |-> ops[d].getfactory], DocIds)

(* C20: the factory's count is its first value plus one for every object  *)
(* created and not yet torn down plus one for every GetFactory call: a    *)
(* successful create adds one reference, a failed create of any kind adds *)
(* none and makes no object, GetFactory adds one, the teardown removes    *)
(* one; after a create and the final Release the count is off its first   *)
(* value by the number of GetFactory calls.                               *)
C20_FactoryBalance ==
    /\ factory_refcount = 1 + Cardinality(HoldingFactory) + GetFactoryCalls
    /\ lastCreate # NoCreate =>
          /\ lastCreate.hr = "S_OK" <=> lastCreate.document # NULL
          /\ lastCreate.document # NULL =>
                docs[lastCreate.document].state = "live"
                    /\ docs[lastCreate.document].factory

\* C20 witness: an object was created, gave out the factory once, and was torn down
C20_Witness ==
    /\ \E d \in DocIds :
          /\ docs[d].state = "freed"
          /\ Len(torn[d]) = 1
          /\ ops[d].getfactory = 1
    /\ HoldingFactory = {}
    /\ factory_refcount = 2

====
